---- MODULE Spec2Model ----
(***************************************************************************)
(* daily-dots: the year-progress grid rendered by three surfaces           *)
(*   - the interactive component DailyDots        (src/unnamed/part_000)   *)
(*   - the generated image route GET              (src/app/page.tsx)       *)
(*   - the configurable png/svg route GET         (src/unnamed/part_001)   *)
(* Each surface recomputes the temporal model, the grid layout and the     *)
(* geometry from its inputs.  One action per surface, modelling the whole  *)
(* handler; `response` is what the handler returns.                        *)
(*                                                                         *)
(* JavaScript numbers are modelled as exact rationals plus NaN (floating   *)
(* point rounding is not modelled); dates as local calendar fields.        *)
(***************************************************************************)
EXTENDS Integers, Sequences, FiniteSets, TLC

VARIABLES request, response

vars == <<request, response>>

-----------------------------------------------------------------------------
(* Bounds of the explored inputs *)

\* reference years explored: 1900 (century, not leap) and MinYear..MaxYear
MaxYear == 2027

-----------------------------------------------------------------------------
(* JavaScript numbers: NaN or a reduced fraction n/d with d > 0 *)

RECURSIVE Gcd(_, _)
Gcd(a, b) == IF b = 0 THEN a ELSE Gcd(b, a % b)

Abs(a) == IF a < 0 THEN -a ELSE a

NaN == [nan |-> TRUE, n |-> 0, d |-> 1]

Rat(a, b) ==
    LET s == IF b < 0 THEN -1 ELSE 1
        g == Gcd(Abs(a), Abs(b))
    IN  [nan |-> FALSE, n |-> (s * a) \div g, d |-> (s * b) \div g]

Num(i) == [nan |-> FALSE, n |-> i, d |-> 1]

IsNaN(x) == x.nan

\* x * y
Mul(x, y) ==
    IF x.nan \/ y.nan THEN NaN
    ELSE IF x.d = 1 /\ y.d = 1 THEN Num(x.n * y.n)
    ELSE LET g1 == Gcd(Abs(x.n), y.d)
             g2 == Gcd(Abs(y.n), x.d)
         IN  Rat((x.n \div g1) * (y.n \div g2), (x.d \div g2) * (y.d \div g1))

\* x + y
Add(x, y) ==
    IF x.nan \/ y.nan THEN NaN
    ELSE IF x.d = 1 /\ y.d = 1 THEN Num(x.n + y.n)
    ELSE LET g == Gcd(x.d, y.d)
         IN  Rat(x.n * (y.d \div g) + y.n * (x.d \div g), (x.d \div g) * y.d)

Neg(x) == IF x.nan THEN NaN ELSE [nan |-> FALSE, n |-> -x.n, d |-> x.d]

\* x - y
Sub(x, y) == Add(x, Neg(y))

\* x / y ; the divisors of the handlers are never zero unless NaN
\* (0/0 is NaN as well)
Div(x, y) ==
    IF x.nan \/ y.nan \/ y.n = 0 THEN NaN
    ELSE IF x.d = 1 /\ y.d = 1 THEN Rat(x.n, y.n)
    ELSE Mul(x, Rat(y.d, y.n))

\* x < y ; every comparison with NaN is false
Lt(x, y) == ~x.nan /\ ~y.nan /\ x.n * y.d < y.n * x.d

\* x === y
StrictEq(x, y) == ~x.nan /\ ~y.nan /\ x.n = y.n /\ x.d = y.d

\* Math.min(x, y)
MathMin(x, y) == IF x.nan \/ y.nan THEN NaN ELSE IF Lt(y, x) THEN y ELSE x

\* Math.floor(x)
MathFloor(x) == IF x.nan THEN NaN ELSE Num(x.n \div x.d)

\* Math.ceil(x)
MathCeil(x) == IF x.nan THEN NaN ELSE Num(-((-x.n) \div x.d))

\* x % y for x >= 0, y > 0 integers
Rem(x, y) == IF x.nan \/ y.nan THEN NaN ELSE Num(x.n % y.n)

IsPositive(x) == ~x.nan /\ x.n > 0

-----------------------------------------------------------------------------
(* Dates: a JavaScript Date in local calendar fields, or Invalid Date *)

MsPerDay == 24 * 60 * 60 * 1000

InvalidDate == [valid |-> FALSE, y |-> 0, m |-> 0, d |-> 0, ms |-> 0]

MkDate(y, m, d, ms) == [valid |-> TRUE, y |-> y, m |-> m, d |-> d, ms |-> ms]

\* day number of a civil date, days since 1970-01-01 (the Date time value
\* divided by the length of a day)
DaysFromCivil(y, m, d) ==
    LET yy  == IF m <= 2 THEN y - 1 ELSE y
        era == yy \div 400
        yoe == yy - era * 400
        mp  == IF m > 2 THEN m - 3 ELSE m + 9
        doy == (153 * mp + 2) \div 5 + d - 1
        doe == yoe * 365 + yoe \div 4 - yoe \div 100 + doy
    IN  era * 146097 + doe - 719468

DayNumber(date) == DaysFromCivil(date.y, date.m, date.d)

\* date-fns startOfYear: January 1st, 00:00:00.000 of the date's year
startOfYear(date) ==
    IF ~date.valid THEN InvalidDate ELSE MkDate(date.y, 1, 1, 0)

\* date-fns endOfYear: December 31st, 23:59:59.999 of the date's year
endOfYear(date) ==
    IF ~date.valid THEN InvalidDate ELSE MkDate(date.y, 12, 31, MsPerDay - 1)

\* date-fns getDay: 0 = Sunday .. 6 = Saturday (1970-01-01 was a Thursday)
getDay(date) ==
    IF ~date.valid THEN NaN ELSE Num((DayNumber(date) + 4) % 7)

\* date-fns compareLocalAsc on (day number, time of day): the sign of the
\* first differing local field
compareLocalAsc(dn1, ms1, dn2, ms2) ==
    IF dn1 # dn2 THEN (IF dn1 < dn2 THEN -1 ELSE 1)
    ELSE IF ms1 # ms2 THEN (IF ms1 < ms2 THEN -1 ELSE 1)
    ELSE 0

\* date-fns differenceInCalendarDays
differenceInCalendarDays(later, earlier) == DayNumber(later) - DayNumber(earlier)

\* date-fns differenceInDays: the number of full days between the dates
differenceInDays(later, earlier) ==
    IF ~later.valid \/ ~earlier.valid THEN NaN
    ELSE LET sign       == compareLocalAsc(DayNumber(later), later.ms,
                                           DayNumber(earlier), earlier.ms)
             difference == Abs(differenceInCalendarDays(later, earlier))
             \* laterDate.setDate(laterDate.getDate() - sign * difference)
             moved      == DayNumber(later) - sign * difference
             isLastDayNotFull ==
                 IF compareLocalAsc(moved, later.ms,
                                    DayNumber(earlier), earlier.ms) = -sign
                 THEN 1 ELSE 0
         IN  Num(sign * (difference - isLastDayNotFull))

-----------------------------------------------------------------------------
(* Query parameters: a value is absent (null) or a string, written as a    *)
(* tuple of characters.  A date string is an ISO text with its fields.     *)

Absent == [has |-> FALSE, s |-> <<>>]
Str(s) == [has |-> TRUE, s |-> s]

\* searchParams.get(name) || fallback : null and "" are falsy
OrDefault(p, fallback) == IF ~p.has \/ p.s = <<>> THEN fallback ELSE p.s

Digits == {"0", "1", "2", "3", "4", "5", "6", "7", "8", "9"}

DigitVal(c) ==
    CASE c = "0" -> 0 [] c = "1" -> 1 [] c = "2" -> 2 [] c = "3" -> 3
      [] c = "4" -> 4 [] c = "5" -> 5 [] c = "6" -> 6 [] c = "7" -> 7
      [] c = "8" -> 8 [] c = "9" -> 9

\* value of the longest digit prefix of s from position i, given the value
\* acc of the digits read so far
RECURSIVE DigitPrefix(_, _, _)
DigitPrefix(s, i, acc) ==
    IF i > Len(s) \/ s[i] \notin Digits THEN acc
    ELSE DigitPrefix(s, i + 1, acc * 10 + DigitVal(s[i]))

\* parseInt(s, 10): optional sign, then the longest prefix of digits; NaN
\* when there is no digit to read
parseInt(s) ==
    LET neg   == Len(s) >= 1 /\ s[1] = "-"
        first == IF Len(s) >= 1 /\ s[1] \in {"-", "+"} THEN 2 ELSE 1
    IN  IF first > Len(s) \/ s[first] \notin Digits THEN NaN
        ELSE IF neg THEN Num(-DigitPrefix(s, first, 0))
        ELSE Num(DigitPrefix(s, first, 0))

IsLeapYear(y) == y % 4 = 0 /\ (y % 100 # 0 \/ y % 400 = 0)

DaysInMonth(y, m) ==
    IF m = 2 THEN (IF IsLeapYear(y) THEN 29 ELSE 28)
    ELSE IF m \in {4, 6, 9, 11} THEN 30 ELSE 31

\* an ISO date-time text "YYYY-MM-DDTHH:mm:ss.sss" with the given fields
IsoText(y, m, d, ms) == [iso |-> TRUE, y |-> y, m |-> m, d |-> d, ms |-> ms]

\* a text that is no date at all
GarbageText == [iso |-> FALSE, y |-> 0, m |-> 0, d |-> 0, ms |-> 0]

\* new Date(dateStr): Invalid Date unless the text names a calendar date
NewDate(t) ==
    IF t.iso /\ t.m \in 1..12 /\ t.d \in 1..DaysInMonth(t.y, t.m)
             /\ t.ms \in 0..(MsPerDay - 1)
    THEN MkDate(t.y, t.m, t.d, t.ms)
    ELSE InvalidDate

\* new Date().toISOString() of the instant `clock`
toISOString(clock) == IsoText(clock.y, clock.m, clock.d, clock.ms)

\* searchParams.get("date") || fallback, for the date texts explored (the
\* empty text is not among them)
DateOrDefault(p, fallback) == IF ~p.has THEN fallback ELSE p.t

AbsentDate == [has |-> FALSE, t |-> GarbageText]
DateParam(t) == [has |-> TRUE, t |-> t]

\* x.toFixed(1) for x >= 0, as the number of tenths shown; "NaN" for NaN
toFixed1(x) ==
    IF x.nan THEN NaN ELSE Num((20 * x.n + x.d) \div (2 * x.d))

\* lodash range(n) / the bound of `for (i = 0; i < n; i++)`: the indices
\* 0..n-1, none when n is NaN or not positive
range(n) == IF n.nan \/ n.n <= 0 THEN {} ELSE 0..(n.n - 1)

\* the concatenation f[lo] \o f[lo+1] \o .. \o f[hi] of what the iterations
\* lo..hi of a loop (or of a map) contribute, in order
RECURSIVE Flatten(_, _, _)
Flatten(f, lo, hi) ==
    IF lo > hi THEN << >>
    ELSE IF lo = hi THEN f[lo]
    ELSE LET mid == (lo + hi) \div 2
         IN  Flatten(f, lo, mid) \o Flatten(f, mid + 1, hi)

\* the function f as the table of its values: f itself, every value
\* computed once
Table(f) == f @@ << >>

-----------------------------------------------------------------------------
(* The interactive component, src/unnamed/part_000 *)

\* totalDays: the inclusive day count of the year
DailyDotsTotalDays(startYear, endYear) ==
    Add(differenceInDays(endYear, startYear), Num(1))

\* daysPassed: days passed, not including today
DailyDotsDaysPassed(now, startYear) == differenceInDays(now, startYear)

\* the label's days left
DailyDotsDaysLeft(totalDays, daysPassed) ==
    Sub(Sub(totalDays, daysPassed), Num(1))

\* isPassed ? cross : isToday ? today : dot
DailyDotsType(dayOffset, daysPassed) ==
    LET isPassed == Lt(Num(dayOffset), daysPassed)
        isToday  == StrictEq(Num(dayOffset), daysPassed)
    IN  IF isPassed THEN "cross" ELSE IF isToday THEN "today" ELSE "dot"

\* a spacer goes before the day at position 7 of its 14-day row
DailyDotsNeverGapBefore(positionInRow) == FALSE
DailyDotsNeedsGapBefore(positionInRow) == StrictEq(positionInRow, Num(7))

\* the size passed to CrossIcon, TodayIcon and DotIcon
DailyDotsSize(type, dotSize) ==
    IF type = "cross" THEN Mul(dotSize, Rat(13, 10))
    ELSE IF type = "today" THEN Mul(dotSize, Rat(18, 10))
    ELSE dotSize

\* the children one day contributes to the grid: an optional spacer, then
\* the icon of its kind
DailyDotsDay(dayOffset, firstDayOfWeek, daysPassed, sizes) ==
    LET totalOffset    == Add(firstDayOfWeek, Num(dayOffset))
        positionInRow  == Rem(totalOffset, Num(14))
        needsGapBefore == DailyDotsNeedsGapBefore(positionInRow)
        type           == DailyDotsType(dayOffset, daysPassed)
        icon == [type |-> type, day |-> dayOffset, size |-> sizes[type]]
    IN  IF needsGapBefore
        THEN << [type |-> "gap", day |-> -1, size |-> Num(0)], icon >>
        ELSE << icon >>

\* range(totalDays).map(..): the flattened children of all days
DailyDotsDays(totalDays, firstDayOfWeek, daysPassed, dotSize) ==
    LET sizes == Table([t \in {"cross", "today", "dot"} |->
                           DailyDotsSize(t, dotSize)])
    IN  Flatten([dayOffset \in range(totalDays) |->
                    DailyDotsDay(dayOffset, firstDayOfWeek, daysPassed, sizes)],
                0, Cardinality(range(totalDays)) - 1)

DailyDots(now, width, height) ==
    LET startYear  == startOfYear(now)
        endYear    == endOfYear(now)
        totalDays  == DailyDotsTotalDays(startYear, endYear)
        daysPassed == DailyDotsDaysPassed(now, startYear)
        day        == getDay(startYear)
        firstDayOfWeek == IF StrictEq(day, Num(0)) THEN Num(6) ELSE Sub(day, Num(1))
        cardWidth  == Mul(width, Rat(75, 100))
        cardHeight == Mul(height, Rat(48, 100))
        padding    == Mul(MathMin(cardWidth, cardHeight), Rat(4, 100))
        totalRows  == MathCeil(Div(Add(totalDays, firstDayOfWeek), Num(14)))
        availableWidth  == Sub(cardWidth, Mul(padding, Num(2)))
        availableHeight == Sub(cardHeight, Mul(padding, Num(2)))
        cols       == Num(15)
        uniformGap == MathMin(Div(availableWidth, Mul(cols, Num(4))),
                              Div(availableHeight, Mul(totalRows, Num(4))))
        dotSize    == Mul(uniformGap, Rat(15, 10))
        empties    == [i \in 1..Cardinality(range(firstDayOfWeek)) |->
                          [type |-> "empty", day |-> -1, size |-> dotSize]]
        gapFirst   == IF ~firstDayOfWeek.nan /\ firstDayOfWeek.n >= 7
                      THEN << [type |-> "gap", day |-> -1, size |-> Num(0)] >>
                      ELSE << >>
    IN  [surface    |-> "component",
         kind       |-> "dom",
         width      |-> width,
         height     |-> height,
         totalDays  |-> totalDays,
         daysPassed |-> daysPassed,
         firstDayOfWeek |-> firstDayOfWeek,
         totalRows  |-> totalRows,
         cardWidth  |-> cardWidth,
         cardHeight |-> cardHeight,
         padding    |-> padding,
         uniformGap |-> uniformGap,
         dotSize    |-> dotSize,
         \* the children of the 15-column grid container, in document order
         children   |-> empties \o gapFirst \o
                        DailyDotsDays(totalDays, firstDayOfWeek, daysPassed, dotSize),
         daysLeft   |-> DailyDotsDaysLeft(totalDays, daysPassed),
         percentage |-> toFixed1(Mul(Div(daysPassed, totalDays), Num(100)))]

\* CSS grid auto-placement of the k-th child (k = 1, 2, ..) of the
\* container with 15 column tracks: row-major, one cell per child
GridRow(k) == (k - 1) \div 15
GridCol(k) == (k - 1) % 15

-----------------------------------------------------------------------------
(* The generated image route, src/app/page.tsx GET *)

\* totalDays: the inclusive day count of the year
PageTotalDays(startYear, endYear) ==
    Add(differenceInDays(endYear, startYear), Num(1))

\* daysPassed: the whole days between the start of the year and now
PageDaysPassedCountingToday(now, startYear) ==
    Add(differenceInDays(now, startYear), Num(1))
PageDaysPassed(now, startYear) == differenceInDays(now, startYear)

\* the label's days left
PageDaysLeft(totalDays, daysPassed) ==
    Sub(Sub(totalDays, daysPassed), Num(1))

\* isPassed ? cross : isToday ? today : dot
PageTypeTodayPassed(dayOffset, daysPassed) ==
    IF ~Lt(daysPassed, Num(dayOffset)) THEN "cross" ELSE "dot"
PageType(dayOffset, daysPassed) ==
    LET isPassed == Lt(Num(dayOffset), daysPassed)
        isToday  == StrictEq(Num(dayOffset), daysPassed)
    IN  IF isPassed THEN "cross" ELSE IF isToday THEN "today" ELSE "dot"

\* the column of a position in the 14-day row: the second week is shifted
\* by one to leave the gap column free
PageCol(positionInRow) ==
    IF Lt(positionInRow, Num(7)) THEN positionInRow
    ELSE Add(positionInRow, Num(1))

\* the row of the grid position totalOffset: 14 days a row
PageRow(totalOffset) == MathFloor(Div(totalOffset, Num(14)))

\* row and column of the grid position totalOffset
PageCell(totalOffset) ==
    LET row           == PageRow(totalOffset)
        positionInRow == Rem(totalOffset, Num(14))
        col           == PageCol(positionInRow)
    IN  [row |-> row, col |-> col, positionInRow |-> positionInRow]

\* x of the centre of column col, y of the centre of row row
PageX(col, cellWidth)  == Add(Mul(col, cellWidth), Div(cellWidth, Num(2)))
PageY(row, cellHeight) == Add(Mul(row, cellHeight), Div(cellHeight, Num(2)))

\* the size the map over dots draws an entry of a type with
PageSize(type, dotSize) ==
    IF type = "cross" THEN Mul(dotSize, Num(1))
    ELSE IF type = "today" THEN Mul(dotSize, Rat(18, 10))
    ELSE dotSize

\* left: x - size / 2 and top: y - size / 2 of the svg drawn at (x, y)
PageLeft(x, size) == Sub(x, Div(size, Num(2)))
PageTop(y, size)  == Sub(y, Div(size, Num(2)))

DrawnTypes == {"cross", "today", "dot"}

\* one entry of `dots` together with what the map over dots renders for it:
\* an svg of width = height = size at (left, top); entries of type empty
\* and gap render null.  g holds the values of PageSize, PageLeft and
\* PageTop per type, column and row.
PageDot(type, day, row, col, g) ==
    IF type \in {"empty", "gap"}
    THEN [type |-> type, day |-> day, row |-> row, col |-> col]
    ELSE [type |-> type, day |-> day, row |-> row, col |-> col,
          size |-> g.size[type],
          left |-> g.left[type][col.n],
          top  |-> g.top[type][row.n]]

\* the entry pushed for the leading empty slot i
PageEmpty(i, g) ==
    LET cell == PageCell(Num(i))
    IN  PageDot("empty", -1, cell.row, cell.col, g)

\* the entries pushed for one day: an optional gap, then the day
PageDay(dayOffset, firstDayOfWeek, daysPassed, g) ==
    LET cell == PageCell(Add(firstDayOfWeek, Num(dayOffset)))
        needsGapBefore == StrictEq(cell.positionInRow, Num(7))
        type == PageType(dayOffset, daysPassed)
        dot  == PageDot(type, dayOffset, cell.row, cell.col, g)
    IN  IF needsGapBefore
        THEN << PageDot("gap", -1, cell.row, Num(7), g), dot >>
        ELSE << dot >>

\* the loop over dayOffset = 0 .. totalDays-1: everything it pushes
PageDays(totalDays, firstDayOfWeek, daysPassed, g) ==
    Flatten([dayOffset \in range(totalDays) |->
                PageDay(dayOffset, firstDayOfWeek, daysPassed, g)],
            0, Cardinality(range(totalDays)) - 1)

\* GET of src/app/page.tsx for the query values and the resolved dateStr
PageGET(widthParam, heightParam, dateStr) ==
    LET width   == parseInt(OrDefault(widthParam, <<"3", "9", "0">>))
        height  == parseInt(OrDefault(heightParam, <<"8", "4", "4">>))
        now        == NewDate(dateStr)
        startYear  == startOfYear(now)
        endYear    == endOfYear(now)
        totalDays  == PageTotalDays(startYear, endYear)
        daysPassed == PageDaysPassed(now, startYear)
        day        == getDay(startYear)
        firstDayOfWeek == IF StrictEq(day, Num(0)) THEN Num(6) ELSE Sub(day, Num(1))
        cardWidth  == Mul(width, Rat(75, 100))
        cardHeight == Mul(height, Rat(48, 100))
        padding    == Mul(MathMin(cardWidth, cardHeight), Rat(4, 100))
        totalRows  == MathCeil(Div(Add(totalDays, firstDayOfWeek), Num(14)))
        availableWidth  == Sub(cardWidth, Mul(padding, Num(2)))
        availableHeight == Sub(cardHeight, Mul(padding, Num(2)))
        cols       == Num(15)
        uniformGap == MathMin(Div(availableWidth, Mul(cols, Num(4))),
                              Div(availableHeight, Mul(totalRows, Num(4))))
        dotSize    == Mul(uniformGap, Rat(15, 10))
        cellWidth  == Div(availableWidth, Num(15))
        cellHeight == Div(availableHeight, totalRows)
        xs == Table([c \in 0..14 |-> PageX(Num(c), cellWidth)])
        ys == Table([r \in range(totalRows) |-> PageY(Num(r), cellHeight)])
        sizes == Table([t \in DrawnTypes |-> PageSize(t, dotSize)])
        g == [size |-> sizes,
              left |-> Table([t \in DrawnTypes |->
                         Table([c \in 0..14 |-> PageLeft(xs[c], sizes[t])])]),
              top  |-> Table([t \in DrawnTypes |->
                         Table([r \in range(totalRows) |->
                                   PageTop(ys[r], sizes[t])])])]
        empties    == [i \in 1..Cardinality(range(firstDayOfWeek)) |->
                          PageEmpty(i - 1, g)]
        gapFirst   == IF ~firstDayOfWeek.nan /\ firstDayOfWeek.n >= 7
                      THEN << PageDot("gap", -1, Num(0), Num(7), g) >>
                      ELSE << >>
    IN  [surface    |-> "page",
         kind       |-> "png",
         width      |-> width,
         height     |-> height,
         totalDays  |-> totalDays,
         daysPassed |-> daysPassed,
         firstDayOfWeek |-> firstDayOfWeek,
         totalRows  |-> totalRows,
         cardWidth  |-> cardWidth,
         cardHeight |-> cardHeight,
         padding    |-> padding,
         uniformGap |-> uniformGap,
         dotSize    |-> dotSize,
         cellWidth  |-> cellWidth,
         cellHeight |-> cellHeight,
         dots       |-> empties \o gapFirst \o
                        PageDays(totalDays, firstDayOfWeek, daysPassed, g),
         daysLeft   |-> PageDaysLeft(totalDays, daysPassed),
         percentage |-> toFixed1(Mul(Div(daysPassed, totalDays), Num(100)))]

-----------------------------------------------------------------------------
(* The configurable png / svg route, src/unnamed/part_001 GET *)

\* totalDays: the inclusive day count of the year
SvgTotalDaysExclusive(startYear, endYear) == differenceInDays(endYear, startYear)
SvgTotalDays(startYear, endYear) ==
    Add(differenceInDays(endYear, startYear), Num(1))

\* daysPassed: the whole days between the start of the year and now
SvgDaysPassed(now, startYear) == differenceInDays(now, startYear)

\* the label's days left
SvgDaysLeftCountingToday(totalDays, daysPassed) == Sub(totalDays, daysPassed)
SvgDaysLeft(totalDays, daysPassed) ==
    Sub(Sub(totalDays, daysPassed), Num(1))

\* isPassed ? cross : isToday ? today : dot
SvgType(dayOffset, daysPassed) ==
    LET isPassed == Lt(Num(dayOffset), daysPassed)
        isToday  == StrictEq(Num(dayOffset), daysPassed)
    IN  IF isPassed THEN "cross" ELSE IF isToday THEN "today" ELSE "dot"

\* the column of a position in the 14-day row: the second week is shifted
\* by one to leave the gap column free
SvgColUnshifted(positionInRow) == positionInRow
SvgCol(positionInRow) ==
    IF Lt(positionInRow, Num(7)) THEN positionInRow
    ELSE Add(positionInRow, Num(1))

\* a row that changes every 15 positions while the column wraps every 14
SvgRowOfFifteen(totalOffset) == MathFloor(Div(totalOffset, Num(15)))
\* the row of the grid position totalOffset: 14 days a row
SvgRow(totalOffset) == MathFloor(Div(totalOffset, Num(14)))

\* row and column of the grid position totalOffset
SvgCell(totalOffset) ==
    LET row           == SvgRow(totalOffset)
        positionInRow == Rem(totalOffset, Num(14))
        col           == SvgCol(positionInRow)
    IN  [row |-> row, col |-> col]

\* centre of the cell in column col / in row row, in canvas coordinates
SvgX(col, cardX, padding, cellWidth) ==
    Add(Add(Add(cardX, padding), Mul(col, cellWidth)), Div(cellWidth, Num(2)))
SvgY(row, cardY, padding, cellHeight) ==
    Add(Add(Add(cardY, padding), Mul(row, cellHeight)), Div(cellHeight, Num(2)))

\* the svg elements pushed for one day: two lines for a cross, one circle
\* for today and for a future day.  g holds, per column and row, the values
\* of SvgX and SvgY and of x -+ offset, y -+ offset.
SvgDay(dayOffset, firstDayOfWeek, daysPassed, dotSize, g) ==
    LET cell == SvgCell(Add(firstDayOfWeek, Num(dayOffset)))
        row  == cell.row
        col  == cell.col
        type == SvgType(dayOffset, daysPassed)
    IN  IF type = "cross"
        THEN LET line(xa, xb) ==
                     [tag |-> "line", type |-> "cross", day |-> dayOffset,
                      row |-> row, col |-> col,
                      x1 |-> xa, y1 |-> g.yMinus[row.n],
                      x2 |-> xb, y2 |-> g.yPlus[row.n],
                      size |-> g.crossSize,
                      strokeWidth |-> g.strokeWidth]
             IN  << line(g.xMinus[col.n], g.xPlus[col.n]),
                    line(g.xPlus[col.n], g.xMinus[col.n]) >>
        ELSE IF type = "today"
        THEN << [tag |-> "circle", type |-> "today", day |-> dayOffset,
                 row |-> row, col |-> col,
                 cx |-> g.x[col.n], cy |-> g.y[row.n], r |-> g.todayRadius] >>
        ELSE << [tag |-> "circle", type |-> "dot", day |-> dayOffset,
                 row |-> row, col |-> col,
                 cx |-> g.x[col.n], cy |-> g.y[row.n], r |-> g.dotRadius] >>

\* the loop over dayOffset = 0 .. totalDays-1: everything it pushes
SvgDays(totalDays, firstDayOfWeek, daysPassed, dotSize, g) ==
    Flatten([dayOffset \in range(totalDays) |->
                SvgDay(dayOffset, firstDayOfWeek, daysPassed, dotSize, g)],
            0, Cardinality(range(totalDays)) - 1)

\* size of a cross, and the radius of the today and the future circle
SvgCrossSize(dotSize)   == dotSize
SvgTodayRadius(dotSize) == Mul(dotSize, Rat(9, 10))
SvgDotRadius(dotSize)   == Mul(dotSize, Rat(4, 10))

\* GET of src/unnamed/part_001 for the query values and the resolved dateStr
SvgGET(widthParam, heightParam, dateStr, formatParam) ==
    LET width   == parseInt(OrDefault(widthParam, <<"3", "9", "0">>))
        height  == parseInt(OrDefault(heightParam, <<"8", "4", "4">>))
        format  == OrDefault(formatParam, <<"p", "n", "g">>)
        now        == NewDate(dateStr)
        startYear  == startOfYear(now)
        endYear    == endOfYear(now)
        totalDays  == SvgTotalDays(startYear, endYear)
        daysPassed == SvgDaysPassed(now, startYear)
        day        == getDay(startYear)
        firstDayOfWeek == IF StrictEq(day, Num(0)) THEN Num(6) ELSE Sub(day, Num(1))
        cardWidth  == Mul(width, Rat(75, 100))
        cardHeight == Mul(height, Rat(48, 100))
        padding    == Mul(MathMin(cardWidth, cardHeight), Rat(4, 100))
        totalRows  == MathCeil(Div(Add(totalDays, firstDayOfWeek), Num(14)))
        availableWidth  == Sub(cardWidth, Mul(padding, Num(2)))
        availableHeight == Sub(cardHeight, Mul(padding, Num(2)))
        cols       == Num(15)
        uniformGap == MathMin(Div(availableWidth, Mul(cols, Num(4))),
                              Div(availableHeight, Mul(totalRows, Num(4))))
        dotSize    == Mul(uniformGap, Rat(15, 10))
        cellWidth  == Div(availableWidth, Num(15))
        cellHeight == Div(availableHeight, totalRows)
        cardX      == Div(Sub(width, cardWidth), Num(2))
        cardY      == Mul(height, Rat(35, 100))
        size       == SvgCrossSize(dotSize)
        offset     == Mul(size, Rat(4, 10))
        xs == Table([c \in 0..14 |-> SvgX(Num(c), cardX, padding, cellWidth)])
        ys == Table([r \in range(totalRows) |->
                        SvgY(Num(r), cardY, padding, cellHeight)])
        g == [x |-> xs, y |-> ys,
              xMinus |-> Table([c \in 0..14 |-> Sub(xs[c], offset)]),
              xPlus  |-> Table([c \in 0..14 |-> Add(xs[c], offset)]),
              yMinus |-> Table([r \in range(totalRows) |-> Sub(ys[r], offset)]),
              yPlus  |-> Table([r \in range(totalRows) |-> Add(ys[r], offset)]),
              crossSize   |-> size,
              strokeWidth |-> Mul(size, Rat(2, 10)),
              todayRadius |-> SvgTodayRadius(dotSize),
              dotRadius   |-> SvgDotRadius(dotSize)]
    IN  [surface    |-> "svg",
         \* format === "svg" answers the markup, anything else the png
         kind       |-> IF format = <<"s", "v", "g">> THEN "svg" ELSE "png",
         width      |-> width,
         height     |-> height,
         totalDays  |-> totalDays,
         daysPassed |-> daysPassed,
         firstDayOfWeek |-> firstDayOfWeek,
         totalRows  |-> totalRows,
         cardWidth  |-> cardWidth,
         cardHeight |-> cardHeight,
         padding    |-> padding,
         uniformGap |-> uniformGap,
         dotSize    |-> dotSize,
         cellWidth  |-> cellWidth,
         cellHeight |-> cellHeight,
         cardX      |-> cardX,
         cardY      |-> cardY,
         svgElements |-> SvgDays(totalDays, firstDayOfWeek, daysPassed, dotSize, g),
         daysLeft   |-> SvgDaysLeft(totalDays, daysPassed),
         percentage |-> toFixed1(Mul(Div(daysPassed, totalDays), Num(100)))]

-----------------------------------------------------------------------------
(* Inputs explored *)

Years == {1900} \cup (2000..MaxYear)

\* times of day: the first instant, noon, the last millisecond
TimesOfDay == {0, 43200000, MsPerDay - 1}

\* years explored month by month: a leap year and a common year
DetailYears == {2024, 2025}

\* the valid instants used as reference dates: the first instant and the
\* last millisecond of every year, and in the detail years the first, second
\* and last day of every month at each time of day
Instants ==
    { MkDate(y, 1, 1, 0) : y \in Years }
    \cup { MkDate(y, 12, 31, MsPerDay - 1) : y \in Years }
    \cup { MkDate(q[1], q[2], q[3], q[4]) :
             q \in { p \in DetailYears \X (1..12) \X (1..31) \X TimesOfDay :
                       p[3] \in {1, 2, DaysInMonth(p[1], p[2])} } }

\* the instants the system clock is read at
Clocks == { MkDate(2025, 1, 1, 43200000), MkDate(2024, 12, 31, MsPerDay - 1) }

\* the instants rendered with every canvas size
CanvasInstants == { MkDate(2025, 1, 1, 0), MkDate(2024, 6, 2, 43200000) }

\* date texts that name no calendar date: no date at all, and month 13
BadDateTexts == { GarbageText, IsoText(2025, 13, 1, 0) }

\* width and height query values
WidthParams ==
    { Absent, Str(<< >>), Str(<<"a", "b", "c">>), Str(<<"0">>),
      Str(<<"-", "3", "9", "0">>), Str(<<"7", "8", "0">>) }

HeightParams ==
    { Absent, Str(<<"x">>), Str(<<"0">>), Str(<<"1", "6", "8", "8">>) }

FormatParams == { Absent, Str(<<"s", "v", "g">>) }

\* width and height props of the component
WidthProps  == { Num(390), Num(0), Num(-390), Num(780) }
HeightProps == { Num(844), Num(0), Num(1688) }

\* the (width, height, date) query values of the requests explored: every
\* date with the default canvas, and every canvas with a few dates
Queries ==
    { <<Absent, Absent, DateParam(t)>> :
        t \in BadDateTexts \cup { toISOString(i) : i \in Instants } }
    \cup { <<Absent, Absent, AbsentDate>> }
    \cup (WidthParams \X HeightParams \X
            { DateParam(toISOString(i)) : i \in CanvasInstants })

\* the (now, width, height) props explored
Props ==
    { <<i, Num(390), Num(844)>> : i \in Instants }
    \cup (CanvasInstants \X WidthProps \X HeightProps)

-----------------------------------------------------------------------------
(* State machine.  Nothing persists between renders: every render starts   *)
(* from the idle state, computes its response from its inputs alone, and   *)
(* the response is then delivered.                                         *)

NoRequest  == [surface |-> "none"]
NoResponse == [surface |-> "none", kind |-> "none"]

Init ==
    /\ request = NoRequest
    /\ response = NoResponse

Idle == request.surface = "none"

\* Home: the page renders the component for the current instant with the
\* default canvas
Home ==
    /\ Idle
    /\ \E clock \in Clocks :
        /\ request' = [surface |-> "component", now |-> clock,
                       width |-> Num(390), height |-> Num(844)]
        /\ response' = DailyDots(clock, Num(390), Num(844))

\* the component rendered with explicit props
RenderDailyDots ==
    /\ Idle
    /\ \E p \in Props :
        /\ request' = [surface |-> "component", now |-> p[1],
                       width |-> p[2], height |-> p[3]]
        /\ response' = DailyDots(p[1], p[2], p[3])

\* searchParams.get("date") || new Date().toISOString(): the clock is read
\* only when the query has no date
DateStrs(dateParam) ==
    IF dateParam.has THEN { dateParam.t } ELSE { toISOString(c) : c \in Clocks }

\* a request to the generated image route
RequestPage ==
    /\ Idle
    /\ \E q \in Queries : \E dateStr \in DateStrs(q[3]) :
        /\ request' = [surface |-> "page", width |-> q[1], height |-> q[2],
                       date |-> q[3], dateStr |-> dateStr]
        /\ response' = PageGET(q[1], q[2], dateStr)

\* a request to the configurable route
RequestSvg ==
    /\ Idle
    /\ \E q \in Queries, f \in FormatParams : \E dateStr \in DateStrs(q[3]) :
        /\ request' = [surface |-> "svg", width |-> q[1], height |-> q[2],
                       date |-> q[3], dateStr |-> dateStr, format |-> f]
        /\ response' = SvgGET(q[1], q[2], dateStr, f)

\* the response is delivered; the next render starts afresh
Deliver ==
    /\ ~Idle
    /\ request' = NoRequest
    /\ response' = NoResponse

Next == RequestSvg \/ RequestPage \/ RenderDailyDots \/ Home \/ Deliver

Spec == Init /\ [][Next]_vars

-----------------------------------------------------------------------------
(* Vocabulary of the properties *)

\* a render has answered
Rendered == response.surface # "none"

\* the reference date of the render
RefDate ==
    IF request.surface = "component" THEN request.now
    ELSE NewDate(request.dateStr)

\* a render of a valid reference date has answered
ValidRender == Rendered /\ RefDate.valid

\* what the render drew or placed, in order: the grid children of the
\* component, the dots of the image route, the svg elements of the
\* configurable route
Entries ==
    IF response.surface = "component" THEN response.children
    ELSE IF response.surface = "page" THEN response.dots
    ELSE response.svgElements

\* the positions in Entries that belong to a day of the year
DayPositions == { i \in 1..Len(Entries) : Entries[i].day >= 0 }

\* the days that have an entry of the given type
DaysOfType(type) ==
    { Entries[i].day : i \in { j \in DayPositions : Entries[j].type = type } }

\* the row and the column the entry at position i is placed at
RowAt(i) ==
    IF response.surface = "component" THEN GridRow(i) ELSE Entries[i].row.n
ColAt(i) ==
    IF response.surface = "component" THEN GridCol(i) ELSE Entries[i].col.n

-----------------------------------------------------------------------------
(* Properties *)

\* C1: for every valid reference date totalDays is 365 or 366, and it is
\* 366 exactly when the year of the date is a Gregorian leap year.
TotalDaysIsYearLength ==
    ValidRender =>
        /\ response.totalDays \in {Num(365), Num(366)}
        /\ (response.totalDays = Num(366)) <=> IsLeapYear(RefDate.y)

\* a render of a date in the leap year 2024 counted 366 days
TotalDaysLeapWitness ==
    /\ ValidRender
    /\ RefDate.y = 2024
    /\ response.totalDays = Num(366)

\* C2 as stated: 0 <= elapsedDays < totalDays, and elapsedDays is 0 if and
\* only if the date is the first instant of its year.
ElapsedZeroOnlyAtFirstInstant ==
    ValidRender =>
        /\ ~response.daysPassed.nan
        /\ response.daysPassed.d = 1
        /\ 0 <= response.daysPassed.n
        /\ Lt(response.daysPassed, response.totalDays)
        /\ (response.daysPassed = Num(0))
             <=> (RefDate.m = 1 /\ RefDate.d = 1 /\ RefDate.ms = 0)

\* C2 amended: 0 <= elapsedDays < totalDays, and elapsedDays is 0 if and
\* only if the date is any instant of January 1st.
ElapsedDaysWithinYear ==
    ValidRender =>
        /\ ~response.daysPassed.nan
        /\ response.daysPassed.d = 1
        /\ 0 <= response.daysPassed.n
        /\ Lt(response.daysPassed, response.totalDays)
        /\ (response.daysPassed = Num(0)) <=> (RefDate.m = 1 /\ RefDate.d = 1)

\* a render at noon of January 1st found no elapsed day
ElapsedDaysWitness ==
    /\ ValidRender
    /\ RefDate.m = 1 /\ RefDate.d = 1 /\ RefDate.ms > 0
    /\ response.daysPassed = Num(0)

\* C3: in both image routes the day dayIndex, with o = weekdayOffset +
\* dayIndex, is placed at row floor(o / 14) and column o mod 14 when that is
\* below 7 and (o mod 14) + 1 otherwise: the column is in 0..14 and never 7,
\* columns 0..6 hold the first week of a row and 8..14 the second, and day 0
\* is at row 0, column weekdayOffset.  Every day of the year is placed.
DaysAvoidGapColumn ==
    (ValidRender /\ response.surface \in {"page", "svg"}) =>
        LET off == response.firstDayOfWeek.n
        IN  /\ response.totalDays \in {Num(365), Num(366)}
            /\ response.firstDayOfWeek \in { Num(k) : k \in 0..6 }
            /\ { Entries[i].day : i \in DayPositions }
                 = 0..(response.totalDays.n - 1)
            /\ \A i \in DayPositions :
                 LET o   == off + Entries[i].day
                     pos == o % 14
                 IN  /\ Entries[i].row = Num(o \div 14)
                     /\ Entries[i].col = Num(IF pos < 7 THEN pos ELSE pos + 1)
                     /\ ColAt(i) \in 0..14
                     /\ ColAt(i) # 7
                     /\ (pos < 7) <=> (ColAt(i) \in 0..6)
                     /\ (pos >= 7) <=> (ColAt(i) \in 8..14)
                     /\ Entries[i].day = 0 => (RowAt(i) = 0 /\ ColAt(i) = off)

\* an image route laid out a leap year that starts on a Sunday: day 0 is in
\* column 6, day 1 in column 8 and the last day is placed
DaysAvoidGapColumnWitness ==
    /\ ValidRender
    /\ response.surface \in {"page", "svg"}
    /\ response.totalDays = Num(366)
    /\ response.firstDayOfWeek = Num(6)
    /\ \E i, j, k \in DayPositions :
         /\ Entries[i].day = 0 /\ ColAt(i) = 6
         /\ Entries[j].day = 1 /\ ColAt(j) = 8
         /\ Entries[k].day = 365

\* C4: the kinds of the days partition the year by elapsedDays: a day before
\* elapsedDays is Past, the day elapsedDays is Today, every later day is
\* Future; exactly one day of the year is Today.
KindsPartitionYear ==
    ValidRender =>
        LET elapsed == response.daysPassed.n
            last    == response.totalDays.n - 1
        IN  /\ DaysOfType("cross") = 0..(elapsed - 1)
            /\ DaysOfType("today") = {elapsed}
            /\ DaysOfType("dot") = (elapsed + 1)..last
            /\ \A i \in DayPositions : Entries[i].type \in DrawnTypes
            /\ \A i, j \in { p \in DayPositions : Entries[p].type = "today" } :
                 i = j

\* a render in the middle of a year has Past days, one Today and Future days
KindsPartitionWitness ==
    /\ ValidRender
    /\ RefDate.m = 6
    /\ DaysOfType("cross") # {}
    /\ Cardinality(DaysOfType("today")) = 1
    /\ DaysOfType("dot") # {}

\* C5: daysLeft = totalDays - elapsedDays - 1 is never negative, is the
\* number of Future days, and is 0 at any instant of December 31st.
DaysLeftCountsFuture ==
    ValidRender =>
        /\ response.daysLeft =
             Num(response.totalDays.n - response.daysPassed.n - 1)
        /\ response.daysLeft.n >= 0
        /\ response.daysLeft.n = Cardinality(DaysOfType("dot"))
        /\ (RefDate.m = 12 /\ RefDate.d = 31) =>
             /\ response.daysLeft = Num(0)
             /\ response.daysPassed.n = response.totalDays.n - 1
             /\ DaysOfType("today") = {response.totalDays.n - 1}

\* a render at noon of a December 31st has no day left
DaysLeftWitness ==
    /\ ValidRender
    /\ RefDate.m = 12 /\ RefDate.d = 31 /\ RefDate.ms = 43200000
    /\ response.daysLeft = Num(0)
    /\ DaysOfType("dot") = {}

\* the canvas width or height of the render is a number that is not positive
NonPositiveCanvas ==
    \/ (~response.width.nan /\ response.width.n <= 0)
    \/ (~response.height.nan /\ response.height.n <= 0)

\* C6: a non-positive canvas width or height is rejected: the surface
\* answers an InvalidCanvasSize error and no geometry or drawables.
NonPositiveCanvasRejected ==
    (Rendered /\ NonPositiveCanvas) =>
        /\ response.kind = "error"
        /\ Entries = << >>

\* C7: a date value that names no calendar date makes the request fail with
\* an error before any geometry is computed; no image or markup is answered.
InvalidDateRejected ==
    (Rendered /\ ~RefDate.valid) => response.kind = "error"

\* the text s is not parseable as a number
Unparseable(s) == IsNaN(parseInt(s))

\* C8: in both image routes a width or height query value that is present
\* but not parseable as a number is replaced by the default (390, 844) as
\* when it is absent; the canvas size is always a number.
UnparseableSizeDefaults ==
    (Rendered /\ response.surface \in {"page", "svg"}) =>
        /\ (request.width.has /\ Unparseable(request.width.s))
             => response.width = Num(390)
        /\ (request.height.has /\ Unparseable(request.height.s))
             => response.height = Num(844)
        /\ ~request.width.has => response.width = Num(390)
        /\ ~request.height.has => response.height = Num(844)
        /\ ~IsNaN(response.width)
        /\ ~IsNaN(response.height)

\* the size the entry at position i is drawn at: the size of the icon of
\* the component and of the svg of the image route, whose circles have
\* radius 5 (today) and 4 (future) of a box of 10; in the configurable route
\* the size of a cross, and for a circle the size of the box in which its
\* radius is that same share: r * 10 / 5 for today, r * 10 / 4 for a future
\* day
DrawnSize(i) ==
    IF response.surface \in {"component", "page"} THEN Entries[i].size
    ELSE IF Entries[i].tag = "line" THEN Entries[i].size
    ELSE IF Entries[i].type = "today" THEN Mul(Entries[i].r, Rat(10, 5))
    ELSE Mul(Entries[i].r, Rat(10, 4))

\* the multiplier of dotSize C9 states for a kind
StatedFactor(type) ==
    IF type = "today" THEN Rat(18, 10) ELSE Num(1)

\* C9: in every surface a day is drawn at a fixed multiple of dotSize that
\* depends on its kind alone: Future 1.0, Today 1.8, Past 1.0.
KindSizesAgree ==
    (ValidRender /\ IsPositive(response.dotSize)) =>
        \A i \in DayPositions :
            DrawnSize(i) = Mul(response.dotSize, StatedFactor(Entries[i].type))

\* the grid of a response of the component: each day with the cell the
\* grid places its child in, and its kind
ComponentGrid(r) ==
    { [day |-> r.children[i].day, row |-> GridRow(i), col |-> GridCol(i),
       type |-> r.children[i].type] :
        i \in { j \in 1..Len(r.children) : r.children[j].day >= 0 } }

\* the grid of a response of the image route
PageGrid(r) ==
    { [day |-> r.dots[i].day, row |-> r.dots[i].row.n, col |-> r.dots[i].col.n,
       type |-> r.dots[i].type] :
        i \in { j \in 1..Len(r.dots) : r.dots[j].day >= 0 } }

\* the grid of a response of the configurable route
SvgGrid(r) ==
    { [day |-> r.svgElements[i].day, row |-> r.svgElements[i].row.n,
       col |-> r.svgElements[i].col.n, type |-> r.svgElements[i].type] :
        i \in 1..Len(r.svgElements) }

\* rows, gap, dotSize and the label of a response
Summary(r) ==
    [totalDays |-> r.totalDays, daysPassed |-> r.daysPassed,
     firstDayOfWeek |-> r.firstDayOfWeek, totalRows |-> r.totalRows,
     uniformGap |-> r.uniformGap, dotSize |-> r.dotSize,
     daysLeft |-> r.daysLeft, percentage |-> r.percentage]

\* the children of the component that are no day: the leading empty slots
\* fill the first columns of row 0 and every spacer is in the gap column
ComponentPlaceholders(r) ==
    /\ \A i \in 1..Len(r.children) :
         /\ r.children[i].type = "empty" =>
              (GridRow(i) = 0 /\ GridCol(i) < r.firstDayOfWeek.n)
         /\ r.children[i].type = "gap" => GridCol(i) = 7
    /\ Cardinality({ i \in 1..Len(r.children) : r.children[i].type = "empty" })
         = Cardinality(range(r.firstDayOfWeek))

\* the responses of the component and of the image route to the reference
\* date and the canvas of the current request of the configurable route
SameAsComponent == DailyDots(RefDate, response.width, response.height)
SameAsPage == PageGET(request.width, request.height, request.dateStr)

\* C10: for the same reference date and canvas the three surfaces produce
\* the same grid: the row-major placement of the component's children into
\* 15 columns puts every day at the row and column, and with the kind, that
\* both image routes compute, and all three compute the same rows, gap,
\* dotSize and label.
SurfacesAgree ==
    (Rendered /\ response.surface = "svg") =>
        /\ ComponentGrid(SameAsComponent) = SvgGrid(response)
        /\ PageGrid(SameAsPage) = SvgGrid(response)
        /\ ComponentPlaceholders(SameAsComponent)
        /\ Summary(SameAsComponent) = Summary(response)
        /\ Summary(SameAsPage) = Summary(response)

\* the three surfaces laid out a year of 365 days that starts on a Wednesday,
\* with spacers among the children of the component
SurfacesAgreeWitness ==
    /\ ValidRender
    /\ response.surface = "svg"
    /\ IsPositive(response.dotSize)
    /\ response.firstDayOfWeek = Num(2)
    /\ Cardinality(SvgGrid(response)) = 365
    /\ Cardinality(ComponentGrid(SameAsComponent)) = 365
    /\ \E i \in 1..Len(SameAsComponent.children) :
         SameAsComponent.children[i].type = "gap"

\* the cells the days of the render are placed in, and each day with its cell
DayCells == { <<RowAt(i), ColAt(i)>> : i \in DayPositions }
DayPlacements == { <<Entries[i].day, RowAt(i), ColAt(i)>> : i \in DayPositions }

\* the days placed in the row r
DaysInRow(r) == { Entries[i].day : i \in { j \in DayPositions : RowAt(j) = r } }

\* C11: for a year of 365 or 366 days and a weekdayOffset in 0..6, with
\* rows = ceil((totalDays + weekdayOffset) / 14): every day has one cell, no
\* two distinct days have the same (row, col) cell, the row of every day is
\* in 0..rows-1, and the last row rows-1 holds at least one day.
RowsExactlyUsed ==
    ValidRender =>
        LET td   == response.totalDays.n
            off  == response.firstDayOfWeek.n
            rows == response.totalRows
        IN  /\ response.totalDays \in {Num(365), Num(366)}
            /\ response.firstDayOfWeek \in { Num(k) : k \in 0..6 }
            /\ rows = Num((td + off + 13) \div 14)
            /\ Cardinality(DayPlacements) = td
            /\ Cardinality(DayCells) = td
            /\ \A i \in DayPositions : RowAt(i) \in 0..(rows.n - 1)
            /\ DaysInRow(rows.n - 1) # {}

\* an image route laid out a year of 365 days that starts on a Monday: the
\* last day is alone in the last row, and 365 cells are taken
RowsExactlyUsedWitness ==
    /\ ValidRender
    /\ response.surface \in {"page", "svg"}
    /\ response.totalDays = Num(365)
    /\ response.firstDayOfWeek = Num(0)
    /\ DaysInRow(response.totalRows.n - 1) = {364}
    /\ Cardinality(DayCells) = 365

====
